---------------------------- MODULE Spec2Model ----------------------------
(***************************************************************************)
(* Model of _Blender/SM_Developer_Plane.py: the batch plane generator and  *)
(* FBX exporter.  The script is a linear pipeline over the host document   *)
(* (bpy.data.collections, bpy.data.objects, the scene root collection),    *)
(* the view layer (active collection, active object) and the filesystem.   *)
(*                                                                         *)
(* Names are sequences of one-character strings, so that str.isdigit,      *)
(* "x" in name, str.startswith, str.split, int() and f-string formatting   *)
(* are computed as Python computes them.  Lengths in metres are exact      *)
(* rationals <<numerator, denominator>>.                                   *)
(***************************************************************************)
EXTENDS Integers, Sequences, FiniteSets, TLC

VARIABLES
    PLANE_SIZES_CM,       \* user setting: the list of sizes (cm)
    data_collections,     \* bpy.data.collections: name -> [children, objects]
    data_objects,         \* bpy.data.objects: name -> [type, data]
    scene_collection,     \* bpy.context.scene.collection: [children, objects]
    layer_missing,        \* collections the view layer holds no node for
    active_layer_collection, \* view_layer.active_layer_collection (a name)
    active_object,        \* view_layer.objects.active (a name)
    files,                \* filesystem: path -> number of the run that wrote it
    dirs,                 \* filesystem: the directories that exist
    pc,                   \* position of the script
    remove_collections,   \* script global (line 42)
    height_collections_map, \* script global (line 55): <<w, h>> -> name
    pending,              \* the work left of the loop the script is in
    created,              \* obj, obj_ucx of the creation-loop iteration
    export_widths,        \* width_collections of the export stage (line 213)
    width_col,            \* the width collection the export stage is in
    exportLog,            \* what the export stage did, per visited subgroup
    runs,                 \* number of runs started
    aborted,              \* a run has ended by an uncaught failure
    unremovable,          \* filesystem: the paths os.remove raises on
    orig,                 \* the document before the first run
    prevDone,             \* the document the previous run left, if it completed
    tess_in,              \* tessellator: <<width, height>> handed to it
    tess_out              \* tessellator: the mesh it built

vars == <<PLANE_SIZES_CM, data_collections, data_objects, scene_collection,
          layer_missing, active_layer_collection, active_object, files, dirs,
          pc, remove_collections, height_collections_map, pending, created,
          export_widths, width_col, exportLog, runs, aborted, unremovable,
          orig, prevDone, tess_in, tess_out>>

docVars == <<PLANE_SIZES_CM, data_collections, data_objects, scene_collection,
             layer_missing, active_layer_collection, active_object, files,
             dirs, pc, remove_collections, height_collections_map, pending,
             created, export_widths, width_col, exportLog, runs, aborted,
             unremovable, orig, prevDone>>

tessVars == <<tess_in, tess_out>>

(***************************************************************************)
(* Bounds of the model.                                                    *)
(***************************************************************************)
NumSizes == 2            \* length of the configured size list
MaxRuns == 2             \* runs of the script in one behaviour
MaxTessCm == 45          \* largest width/height (cm) handed to the tessellator

None == <<>>

(***************************************************************************)
(* Python strings.                                                         *)
(***************************************************************************)
Digits == <<"0", "1", "2", "3", "4", "5", "6", "7", "8", "9">>

DigitChars == {Digits[i] : i \in 1..10}

DigitVal(c) == (CHOOSE i \in 1..10 : Digits[i] = c) - 1

\* ord(c) for the characters the names are made of
Ord(c) ==
    CASE c = "." -> 46
      [] c \in DigitChars -> 48 + DigitVal(c)
      [] c = "C" -> 67
      [] c = "F" -> 70
      [] c = "U" -> 85
      [] c = "X" -> 88
      [] c = "_" -> 95
      [] c = "b" -> 98
      [] c = "e" -> 101
      [] c = "o" -> 111
      [] c = "u" -> 117
      [] c = "x" -> 120

\* str.isdigit()
IsDigit(s) == Len(s) > 0 /\ \A i \in 1..Len(s) : s[i] \in DigitChars

\* c in s, for a one-character c
Contains(s, c) == \E i \in 1..Len(s) : s[i] = c

\* s.startswith(p)
StartsWith(s, p) == Len(s) >= Len(p) /\ SubSeq(s, 1, Len(p)) = p

RECURSIVE Str(_)
\* f"{n}" for an int n >= 0
Str(n) == IF n < 10 THEN <<Digits[n + 1]>>
          ELSE Str(n \div 10) \o <<Digits[(n % 10) + 1]>>

RECURSIVE ParseInt(_)
\* int(s) for a string of digits
ParseInt(s) == IF Len(s) = 0 THEN 0
               ELSE 10 * ParseInt(SubSeq(s, 1, Len(s) - 1)) + DigitVal(s[Len(s)])

RECURSIVE Split(_, _)
\* s.split(sep), for a one-character sep
Split(s, sep) ==
    IF ~Contains(s, sep) THEN <<s>>
    ELSE LET i == CHOOSE k \in 1..Len(s) :
                      s[k] = sep /\ \A j \in 1..(k - 1) : s[j] # sep
         IN <<SubSeq(s, 1, i - 1)>> \o Split(SubSeq(s, i + 1, Len(s)), sep)

RECURSIVE StrLess(_, _)
\* a < b on Python strings (code-point order)
StrLess(a, b) ==
    IF Len(b) = 0 THEN FALSE
    ELSE IF Len(a) = 0 THEN TRUE
    ELSE IF a[1] # b[1] THEN Ord(a[1]) < Ord(b[1])
    ELSE StrLess(Tail(a), Tail(b))

X == <<"x">>
UCX_ == <<"U", "C", "X", "_">>

SeqToSet(s) == {s[i] : i \in 1..Len(s)}

RECURSIVE Remove(_, _)
\* the sequence s without the element e
Remove(s, e) == IF Len(s) = 0 THEN <<>>
                ELSE IF s[1] = e THEN Remove(Tail(s), e)
                ELSE <<s[1]>> \o Remove(Tail(s), e)

\* sorted(s, key=...) with Less comparing the keys: a stable insertion sort
Sorted(s, Less(_, _)) ==
    LET RECURSIVE ins(_, _)
        ins(x, t) == IF Len(t) = 0 THEN <<x>>
                     ELSE IF Less(x, t[1]) THEN <<x>> \o t
                     ELSE <<t[1]>> \o ins(x, Tail(t))
        RECURSIVE srt(_)
        srt(t) == IF Len(t) = 0 THEN <<>>
                  ELSE ins(t[Len(t)], srt(SubSeq(t, 1, Len(t) - 1)))
    IN srt(s)

(***************************************************************************)
(* Exact rationals <<n, d>>, d > 0, for lengths in metres.                 *)
(***************************************************************************)
RECURSIVE Gcd(_, _)
Gcd(a, b) == IF b = 0 THEN a ELSE Gcd(b, a % b)

Abs(a) == IF a < 0 THEN -a ELSE a

Rat(n, d) ==
    LET g == Gcd(Abs(n), Abs(d))
        s == IF d < 0 THEN -1 ELSE 1
    IN <<(s * n) \div g, (s * d) \div g>>

RSub(a, b) == Rat(a[1] * b[2] - b[1] * a[2], a[2] * b[2])
RMul(a, b) == Rat(a[1] * b[1], a[2] * b[2])
RDiv(a, b) == Rat(a[1] * b[2], a[2] * b[1])
RNeg(a) == <<-a[1], a[2]>>
RLe(a, b) == a[1] * b[2] <= b[1] * a[2]
RInt(k) == <<k, 1>>

\* int(round(q)) for q >= 0: Python 3 rounds an exact half to the even integer
Round(q) ==
    LET f == q[1] \div q[2]
        r == q[1] % q[2]
    IN IF 2 * r < q[2] THEN f
       ELSE IF 2 * r > q[2] THEN f + 1
       ELSE IF f % 2 = 0 THEN f ELSE f + 1

\* the quotient is an exact half: there the float64 quotient of the code may
\* fall on either side of it
IsTie(q) == 2 * (q[1] % q[2]) = q[2]

(***************************************************************************)
(* Global settings (lines 30-39).                                          *)
(***************************************************************************)
PLANE_SUBDIVISION_SIZE == <<1, 5>>     \* 0.2 metres

EXPORT_TO_FBX == TRUE

\* s / 100
Metres(s) == Rat(s, 100)

\* int(round(width * 100))
Centimetres(width) == Round(RMul(width, RInt(100)))

(***************************************************************************)
(* The tessellator (lines 75-126).  A mesh is [verts, faces]: verts the    *)
(* vertex coordinates <<x, y>> in creation order, faces the triangles,     *)
(* each a sequence of loops [vert |-> index into verts, uv |-> <<u, v>>].  *)
(***************************************************************************)
\* range(n)
Range(n) == [i \in 1..n |-> i - 1]

RECURSIVE Flatten(_)
\* the concatenation of a sequence of sequences
Flatten(ss) == IF Len(ss) = 0 THEN <<>> ELSE ss[1] \o Flatten(Tail(ss))

\* lines 78-117, for the grid resolution n_x by n_y
BMeshGrid(width, height, n_x, n_y) ==
    LET min_x == RNeg(RDiv(width, RInt(2)))
        max_x == RDiv(width, RInt(2))
        min_y == RNeg(RDiv(height, RInt(2)))
        max_y == RDiv(height, RInt(2))
        co(x, y) == <<RSub(RMul(RInt(x), PLANE_SUBDIVISION_SIZE),
                           RDiv(width, RInt(2))),
                      RSub(RMul(RInt(y), PLANE_SUBDIVISION_SIZE),
                           RDiv(height, RInt(2)))>>
        xs == Range(n_x + 1)
        ys == Range(n_y + 1)
        \* bm.verts, in creation order: the rows of verts_grid one after another
        verts == Flatten([r \in 1..Len(ys) |->
                              [c \in 1..Len(xs) |-> co(xs[c], ys[r])]])
        \* verts_grid[y][x], as an index into bm.verts
        grid(y, x) == y * Len(xs) + x + 1
        loop(v) == [vert |-> v,
                    uv |-> <<RDiv(RSub(verts[v][1], min_x), RSub(max_x, min_x)),
                             RDiv(RSub(verts[v][2], min_y), RSub(max_y, min_y))>>]
        tris(y, x) ==
            LET v0 == grid(y, x)
                v1 == grid(y, x + 1)
                v2 == grid(y + 1, x)
                v3 == grid(y + 1, x + 1)
            IN <<<<loop(v0), loop(v1), loop(v2)>>,
                 <<loop(v1), loop(v3), loop(v2)>>>>
        faces == Flatten(Flatten([r \in 1..n_y |->
                              [c \in 1..n_x |-> tris(r - 1, c - 1)]]))
    IN [verts |-> verts, faces |-> faces]

\* a grid resolution taken by truncation instead of rounding
create_subdivided_plane_bmesh_truncating(width, height) ==
    BMeshGrid(width, height,
              RDiv(width, PLANE_SUBDIVISION_SIZE)[1]
                  \div RDiv(width, PLANE_SUBDIVISION_SIZE)[2],
              RDiv(height, PLANE_SUBDIVISION_SIZE)[1]
                  \div RDiv(height, PLANE_SUBDIVISION_SIZE)[2])

\* create_subdivided_plane_bmesh(width, height): the mesh of the object
create_subdivided_plane_bmesh(width, height) ==
    BMeshGrid(width, height,
              Round(RDiv(width, PLANE_SUBDIVISION_SIZE)),
              Round(RDiv(height, PLANE_SUBDIVISION_SIZE)))

\* create_simple_plane(width, height): one quad, no UV layer
create_simple_plane(width, height) ==
    LET hw == RDiv(width, RInt(2))
        hh == RDiv(height, RInt(2))
    IN [verts |-> <<<<RNeg(hw), RNeg(hh)>>, <<hw, RNeg(hh)>>,
                    <<hw, hh>>, <<RNeg(hw), hh>>>>,
        faces |-> <<<<[vert |-> 1, uv |-> None], [vert |-> 2, uv |-> None],
                      [vert |-> 3, uv |-> None], [vert |-> 4, uv |-> None]>>>>]

(***************************************************************************)
(* The tessellator on its own: any positive width and height, in whole     *)
(* centimetres, whose quotient by the step is not an exact half.           *)
(***************************************************************************)
TessSizes ==
    {c \in 1..MaxTessCm : ~IsTie(RDiv(Metres(c), PLANE_SUBDIVISION_SIZE))}

Tessellate ==
    /\ tess_in # None
    /\ tess_out = None
    /\ tess_out' = <<create_subdivided_plane_bmesh(tess_in[1], tess_in[2])>>
    /\ UNCHANGED <<tess_in, docVars>>

(***************************************************************************)
(* The host document.  A document d is [collections, objects, scene]; the  *)
(* scene root collection is addressed by Root.                             *)
(***************************************************************************)
Root == <<"Scene Collection">>

Doc == [collections |-> data_collections,
        objects |-> data_objects,
        scene |-> scene_collection]

EmptyCollection == [children |-> <<>>, objects |-> <<>>]

\* the suffix Blender appends to a name that is taken: ".001", ".002", ...
Suffix(k) == <<".", "0", "0", Digits[k + 1]>>

\* the name a new datablock gets: the one asked for, or the first free suffix
UniqueName(name, taken) ==
    IF name \notin taken THEN name
    ELSE name \o Suffix(CHOOSE k \in 1..9 :
                            /\ name \o Suffix(k) \notin taken
                            /\ \A j \in 1..(k - 1) : name \o Suffix(j) \in taken)

\* collection.children of the collection (or scene root) p
Children(d, p) ==
    IF p = Root THEN d.scene.children ELSE d.collections[p].children

\* collection.objects of the collection (or scene root) p
Objects(d, p) ==
    IF p = Root THEN d.scene.objects ELSE d.collections[p].objects

SetChildren(d, p, cs) ==
    IF p = Root
    THEN [d EXCEPT !.scene.children = cs]
    ELSE [d EXCEPT !.collections[p].children = cs]

SetObjects(d, p, os) ==
    IF p = Root
    THEN [d EXCEPT !.scene.objects = os]
    ELSE [d EXCEPT !.collections[p].objects = os]

\* bpy.data.collections.get(name)
CollectionsGet(d, name) ==
    IF name \in DOMAIN d.collections THEN name ELSE None

\* bpy.data.collections.new(name): the document with the new collection
CollectionsNew(d, name) ==
    [d EXCEPT !.collections =
        d.collections @@
        (UniqueName(name, DOMAIN d.collections) :> EmptyCollection)]

\* bpy.data.collections.remove(col): gone from the data and from every parent
CollectionsRemove(d, col) ==
    [collections |->
        [n \in DOMAIN d.collections \ {col} |->
            [children |-> Remove(d.collections[n].children, col),
             objects |-> d.collections[n].objects]],
     objects |-> d.objects,
     scene |-> [children |-> Remove(d.scene.children, col),
                objects |-> d.scene.objects]]

\* bpy.data.objects.new(name, mesh)
ObjectsNew(d, name, type, data) ==
    [d EXCEPT !.objects =
        d.objects @@
        (UniqueName(name, DOMAIN d.objects) :> [type |-> type, data |-> data])]

\* bpy.data.objects.remove(obj, do_unlink=True)
ObjectsRemove(d, obj) ==
    [collections |->
        [n \in DOMAIN d.collections |->
            [children |-> d.collections[n].children,
             objects |-> Remove(d.collections[n].objects, obj)]],
     objects |-> [o \in DOMAIN d.objects \ {obj} |-> d.objects[o]],
     scene |-> [children |-> d.scene.children,
                objects |-> Remove(d.scene.objects, obj)]]

\* p.children.link(c): appended after the children p already has
ChildrenLink(d, p, c) == SetChildren(d, p, Append(Children(d, p), c))

\* p.children.unlink(c)
ChildrenUnlink(d, p, c) == SetChildren(d, p, Remove(Children(d, p), c))

\* p.objects.link(o)
ObjectsLink(d, p, o) == SetObjects(d, p, Append(Objects(d, p), o))

\* p.objects.unlink(o); unlinking an object p does not hold raises, and the
\* script swallows it (lines 160-163)
ObjectsUnlink(d, p, o) == SetObjects(d, p, Remove(Objects(d, p), o))

\* a set of names as a list, in the order bpy.data lists them (by name)
NameList(S) ==
    LET RECURSIVE lst(_)
        lst(T) == IF T = {} THEN <<>>
                  ELSE LET m == CHOOSE x \in T : \A y \in T \ {x} : StrLess(x, y)
                       IN <<m>> \o lst(T \ {m})
    IN lst(S)

\* the value after f is applied for each element of s in turn (a for loop)
FoldDoc(d, s, f(_, _)) ==
    LET RECURSIVE go(_, _)
        go(dd, t) == IF Len(t) = 0 THEN dd ELSE go(f(dd, t[1]), Tail(t))
    IN go(d, s)

SetDoc(d) ==
    /\ data_collections' = d.collections
    /\ data_objects' = d.objects
    /\ scene_collection' = d.scene

(***************************************************************************)
(* Derived settings (lines 38-39) and the names the script formats.        *)
(***************************************************************************)
PLANE_SIZES_M == [i \in 1..Len(PLANE_SIZES_CM) |-> Metres(PLANE_SIZES_CM[i])]

\* itertools.product(PLANE_SIZES_M, PLANE_SIZES_M)
PLANE_SIZE_PAIRS ==
    Flatten([i \in 1..Len(PLANE_SIZES_M) |->
                [j \in 1..Len(PLANE_SIZES_M) |->
                    <<PLANE_SIZES_M[i], PLANE_SIZES_M[j]>>]])

\* f"{width_cm}x{height_cm}"
PairName(width_cm, height_cm) == Str(width_cm) \o X \o Str(height_cm)

(***************************************************************************)
(* Cleanup (lines 41-50).                                                  *)
(***************************************************************************)
\* line 44, with only the digit-named collections taken
IsGeneratedName_digits_only(name) == IsDigit(name)

\* line 44: the names of generated collections
IsGeneratedName(name) ==
    IsDigit(name) \/ Contains(name, "x") \/ StartsWith(name, UCX_)

\* lines 46-47, with only the mesh objects linked to the scene root taken
MeshObjects_scene_only(d) ==
    SelectSeq(NameList(DOMAIN d.objects),
              LAMBDA o : d.objects[o].type = "MESH"
                         /\ o \in SeqToSet(d.scene.objects))

\* lines 46-47: the objects the cleanup removes
MeshObjects(d) ==
    SelectSeq(NameList(DOMAIN d.objects), LAMBDA o : d.objects[o].type = "MESH")

\* lines 42-48
CleanupObjects ==
    /\ pc = "cleanup"
    /\ remove_collections' =
           SelectSeq(NameList(DOMAIN data_collections), IsGeneratedName)
    /\ SetDoc(FoldDoc(Doc, MeshObjects(Doc), ObjectsRemove))
    /\ pc' = "cleanup_collections"
    /\ UNCHANGED <<PLANE_SIZES_CM, layer_missing, active_layer_collection,
                   active_object, files, dirs, height_collections_map, pending,
                   created, export_widths, width_col, exportLog, runs, aborted,
                   unremovable, orig, prevDone, tessVars>>

\* lines 49-55
CleanupCollections ==
    /\ pc = "cleanup_collections"
    /\ SetDoc(FoldDoc(Doc, remove_collections, CollectionsRemove))
    /\ height_collections_map' = <<>>
    /\ pending' = PLANE_SIZES_CM
    /\ pc' = "build"
    /\ UNCHANGED <<PLANE_SIZES_CM, layer_missing, active_layer_collection,
                   active_object, files, dirs, remove_collections, created,
                   export_widths, width_col, exportLog, runs, aborted,
                   unremovable, orig, prevDone, tessVars>>

(***************************************************************************)
(* Hierarchy builder (lines 57-71): one iteration of the outer loop.       *)
(***************************************************************************)
\* get-or-create of the collection `name` under `parent` (lines 59-62, 67-70):
\* the document and the collection found or made
GetOrCreate(d, name, parent) ==
    IF CollectionsGet(d, name) # None
    THEN [d |-> d, col |-> CollectionsGet(d, name)]
    ELSE LET made == UniqueName(name, DOMAIN d.collections)
         IN [d |-> ChildrenLink(CollectionsNew(d, name), parent, made),
             col |-> made]

BuildWidth ==
    /\ pc = "build"
    /\ pending # <<>>
    /\ LET width_cm == Head(pending)
           w == GetOrCreate(Doc, Str(width_cm), Root)
           sub(acc, height_cm) ==
               LET h == GetOrCreate(acc.d, PairName(width_cm, height_cm), w.col)
               IN [d |-> h.d,
                   map |-> acc.map @@ (<<width_cm, height_cm>> :> h.col)]
           r == FoldDoc([d |-> w.d, map |-> height_collections_map],
                        PLANE_SIZES_CM, sub)
       IN /\ SetDoc(r.d)
          /\ height_collections_map' = r.map
    /\ IF Tail(pending) = <<>>
       THEN pc' = "create" /\ pending' = PLANE_SIZE_PAIRS
       ELSE pc' = pc /\ pending' = Tail(pending)
    /\ UNCHANGED <<PLANE_SIZES_CM, layer_missing, active_layer_collection,
                   active_object, files, dirs, remove_collections, created,
                   export_widths, width_col, exportLog, runs, aborted,
                   unremovable, orig, prevDone, tessVars>>

(***************************************************************************)
(* Main creation loop (lines 144-163), one iteration in two steps.         *)
(***************************************************************************)
\* the mesh of a new object: the function that builds it and what it is
\* handed (the mesh itself is create_subdivided_plane_bmesh(width, height)
\* or create_simple_plane(width, height) above)
MeshData(maker, width, height) ==
    [maker |-> maker, width |-> width, height |-> height]

\* lines 145-151: the two objects are made, not yet linked anywhere
CreateObjects ==
    /\ pc = "create"
    /\ pending # <<>>
    /\ created = <<>>
    /\ LET width == Head(pending)[1]
           height == Head(pending)[2]
           obj_name == PairName(Centimetres(width), Centimetres(height))
           ucx_name == UCX_ \o obj_name
           obj == UniqueName(obj_name, DOMAIN data_objects)
           d1 == ObjectsNew(Doc, obj_name, "MESH",
                     MeshData("create_subdivided_plane_bmesh", width, height))
           obj_ucx == UniqueName(ucx_name, DOMAIN d1.objects)
           d2 == ObjectsNew(d1, ucx_name, "MESH",
                     MeshData("create_simple_plane", width, height))
       IN /\ SetDoc(d2)
          /\ created' = <<obj, obj_ucx>>
    /\ UNCHANGED <<PLANE_SIZES_CM, layer_missing, active_layer_collection,
                   active_object, files, dirs, pc, remove_collections,
                   height_collections_map, pending, export_widths, width_col,
                   exportLog, runs, aborted, unremovable, orig, prevDone,
                   tessVars>>

\* lines 153-163: both are linked into the subgroup of the pair
LinkObjects ==
    /\ pc = "create"
    /\ created # <<>>
    /\ LET width_cm == Centimetres(Head(pending)[1])
           height_cm == Centimetres(Head(pending)[2])
           subcol == height_collections_map[<<width_cm, height_cm>>]
           d1 == ObjectsLink(Doc, subcol, created[1])
           d2 == ObjectsLink(d1, subcol, created[2])
       IN SetDoc(FoldDoc(d2, created, LAMBDA d, o : ObjectsUnlink(d, Root, o)))
    /\ created' = <<>>
    /\ pending' = Tail(pending)
    /\ pc' = IF Tail(pending) = <<>> THEN "sort" ELSE pc
    /\ UNCHANGED <<PLANE_SIZES_CM, layer_missing, active_layer_collection,
                   active_object, files, dirs, remove_collections,
                   height_collections_map, export_widths, width_col, exportLog,
                   runs, aborted, unremovable, orig, prevDone, tessVars>>

(***************************************************************************)
(* Sorting (lines 166-193).                                                *)
(***************************************************************************)
\* alnum_key(s): the parts of s between "x", a digit run as <<"int", n>>
alnum_key(s) ==
    LET parts == Split(s, "x")
    IN [i \in 1..Len(parts) |->
           IF IsDigit(parts[i]) THEN <<"int", ParseInt(parts[i])>>
           ELSE <<"str", parts[i]>>]

\* p < q on two parts of a key.  Python raises TypeError on an int against a
\* str; the keys compared here are those of the subgroups the run created.
PartLess(p, q) ==
    IF p[1] = "int" /\ q[1] = "int" THEN p[2] < q[2]
    ELSE IF p[1] = "str" /\ q[1] = "str" THEN StrLess(p[2], q[2])
    ELSE FALSE

PartEq(p, q) == p[1] = q[1] /\ p[2] = q[2]

RECURSIVE KeyLess(_, _)
\* a < b on two keys (Python list comparison)
KeyLess(a, b) ==
    IF Len(b) = 0 THEN FALSE
    ELSE IF Len(a) = 0 THEN TRUE
    ELSE IF ~PartEq(a[1], b[1]) THEN PartLess(a[1], b[1])
    ELSE KeyLess(Tail(a), Tail(b))

\* line 173 with the names compared as strings
WidthOrder_by_name(a, b) == StrLess(a, b)

\* lines 173 and 213: key=lambda n: int(n)
WidthOrder(a, b) == ParseInt(a) < ParseInt(b)

\* lines 182 and 217: key=alnum_key
SubgroupOrder(a, b) == KeyLess(alnum_key(a), alnum_key(b))

AfterSort == IF EXPORT_TO_FBX THEN "export" ELSE "finish"

\* lines 171-177: the width collections are unlinked from the scene root
SortRoot ==
    /\ pc = "sort"
    /\ LET width_coll_names ==
               Sorted(SelectSeq(scene_collection.children, IsDigit), WidthOrder)
           unlink(d, col) ==
               IF col \in SeqToSet(width_coll_names)
               THEN ChildrenUnlink(d, Root, col) ELSE d
       IN /\ SetDoc(FoldDoc(Doc, scene_collection.children, unlink))
          /\ pending' = width_coll_names
          /\ pc' = IF width_coll_names = <<>> THEN AfterSort ELSE "sort_widths"
    /\ UNCHANGED <<PLANE_SIZES_CM, layer_missing, active_layer_collection,
                   active_object, files, dirs, remove_collections,
                   height_collections_map, created, export_widths, width_col,
                   exportLog, runs, aborted, unremovable, orig, prevDone,
                   tessVars>>

\* lines 188-193: the objects of a subgroup relinked in name order
SortObjects(d, subcol) ==
    LET objs_sorted == Sorted(Objects(d, subcol), StrLess)
        d1 == FoldDoc(d, Objects(d, subcol),
                      LAMBDA dd, o : ObjectsUnlink(dd, subcol, o))
    IN FoldDoc(d1, objs_sorted, LAMBDA dd, o : ObjectsLink(dd, subcol, o))

\* lines 178-193: one iteration of the loop over width_coll_names
SortWidth ==
    /\ pc = "sort_widths"
    /\ pending # <<>>
    /\ LET col_name == Head(pending)
           d1 == ChildrenLink(Doc, Root, col_name)
           height_coll_names == Sorted(Children(d1, col_name), SubgroupOrder)
           d2 == FoldDoc(d1, Children(d1, col_name),
                         LAMBDA dd, c : ChildrenUnlink(dd, col_name, c))
           relink(dd, subcol_name) ==
               SortObjects(ChildrenLink(dd, col_name, subcol_name), subcol_name)
       IN SetDoc(FoldDoc(d2, height_coll_names, relink))
    /\ pending' = Tail(pending)
    /\ pc' = IF Tail(pending) = <<>> THEN AfterSort ELSE pc
    /\ UNCHANGED <<PLANE_SIZES_CM, layer_missing, active_layer_collection,
                   active_object, files, dirs, remove_collections,
                   height_collections_map, created, export_widths, width_col,
                   exportLog, runs, aborted, unremovable, orig, prevDone,
                   tessVars>>

(***************************************************************************)
(* Batch export (lines 198-267).                                           *)
(***************************************************************************)
\* layer_coll.children: the view layer mirrors the collection tree below the
\* scene root, but for the collections it holds no node for
LayerChildren(d, layer_coll) ==
    SelectSeq(Children(d, layer_coll), LAMBDA c : c \notin layer_missing)

RECURSIVE find_layer_collection(_, _, _)
\* lines 198-205: depth-first, the first node whose collection is coll
find_layer_collection(d, layer_coll, coll) ==
    IF layer_coll = coll THEN layer_coll
    ELSE LET RECURSIVE first(_)
             first(cs) ==
                 IF Len(cs) = 0 THEN None
                 ELSE LET res == find_layer_collection(d, cs[1], coll)
                      IN IF res # None THEN res ELSE first(Tail(cs))
         IN first(LayerChildren(d, layer_coll))

RECURSIVE CollectionAllObjects(_, _)
\* the objects of a collection and of the collections below it
CollectionAllObjects(d, c) ==
    SeqToSet(Objects(d, c)) \cup
    UNION {CollectionAllObjects(d, k) : k \in SeqToSet(Children(d, c))}

\* f"SM_Developer_Plane_{subcol.name}.fbx"
FbxFilename(name) == <<"SM_Developer_Plane_", name, ".fbx">>

\* lines 235-238: os.path.join(EXPORT_BASE_DIR, width_cm, height_cm, filename),
\* as the segments below the base directory
ExportPath(width_cm, subcol_name) ==
    <<width_cm, Split(subcol_name, "x")[2], FbxFilename(subcol_name)>>

\* lines 229-232 with the collection activated before the lookup is tested
ActiveAfterLookup_unconditional(current, target, subcol) == subcol

\* lines 229-232: the active collection after the lookup
ActiveAfterLookup(current, target, subcol) ==
    IF target = None THEN current ELSE subcol

\* lines 241-246 with the old file left in place
RemoveOldFile_never(fs, export_path, raised) == fs

\* lines 241-246: the filesystem after the attempt to remove the old file
RemoveOldFile(fs, export_path, raised) ==
    IF export_path \in DOMAIN fs /\ ~raised
    THEN [q \in DOMAIN fs \ {export_path} |-> fs[q]]
    ELSE fs

\* lines 242-246 without the except clause
ProceedsAfterRemove_uncaught(raised) == ~raised

\* lines 242-246: a failed removal is caught and printed, the script goes on
ProceedsAfterRemove(raised) == TRUE

\* lines 250-256: the object made active
MainPlane(objects_to_export, main_plane_name) ==
    IF \E i \in 1..Len(objects_to_export) :
           objects_to_export[i] = main_plane_name
    THEN main_plane_name
    ELSE objects_to_export[1]

\* lines 258-263: the exporter writes the mesh objects of the active
\* collection to filepath, replacing what is there
ExportSceneFbx(fs, filepath, d, active) ==
    LET content == [run |-> runs,
                    collection |-> active,
                    objects |-> {o \in CollectionAllObjects(d, active) :
                                     d.objects[o].type = "MESH"}]
    IN [q \in DOMAIN fs \cup {filepath} |->
           IF q = filepath THEN content ELSE fs[q]]

\* lines 210-213
ExportBegin ==
    /\ pc = "export"
    /\ export_widths' =
           Sorted(SelectSeq(scene_collection.children, IsDigit), WidthOrder)
    /\ pending' = <<>>
    /\ width_col' = None
    /\ pc' = IF export_widths' = <<>> THEN "finish" ELSE "export_loop"
    /\ UNCHANGED <<PLANE_SIZES_CM, data_collections, data_objects,
                   scene_collection, layer_missing, active_layer_collection,
                   active_object, files, dirs, remove_collections,
                   height_collections_map, created, exportLog, runs, aborted,
                   unremovable, orig, prevDone, tessVars>>

\* lines 215-217: the next width collection, its children in key order
ExportWidth ==
    /\ pc = "export_loop"
    /\ pending = <<>>
    /\ export_widths # <<>>
    /\ width_col' = Head(export_widths)
    /\ export_widths' = Tail(export_widths)
    /\ pending' = Sorted(Children(Doc, Head(export_widths)), SubgroupOrder)
    /\ pc' = IF pending' = <<>> /\ export_widths' = <<>> THEN "finish" ELSE pc
    /\ UNCHANGED <<PLANE_SIZES_CM, data_collections, data_objects,
                   scene_collection, layer_missing, active_layer_collection,
                   active_object, files, dirs, remove_collections,
                   height_collections_map, created, exportLog, runs, aborted,
                   unremovable, orig, prevDone, tessVars>>

\* lines 218-265: one subgroup
ExportSubcol ==
    /\ pc = "export_loop"
    /\ pending # <<>>
    /\ LET subcol == Head(pending)
             width_cm == width_col
             height_cm == Split(subcol, "x")[2]
             objects_to_export ==
                 SelectSeq(Objects(Doc, subcol),
                           LAMBDA o : data_objects[o].type = "MESH")
             target == find_layer_collection(Doc, Root, subcol)
             outcome ==
                 IF ~Contains(subcol, "x") THEN "skipped_name"
                 ELSE IF objects_to_export = <<>> THEN "skipped_empty"
                 ELSE IF target = None THEN "skipped_layer"
                 ELSE "exported"
             export_dir == <<width_cm, height_cm>>
             export_path == ExportPath(width_cm, subcol)
             had_old == export_path \in DOMAIN files
             \* os.remove raises
             raised == outcome = "exported" /\ had_old
                       /\ export_path \in unremovable
             files1 == RemoveOldFile(files, export_path, raised)
             active == ActiveAfterLookup(active_layer_collection, target, subcol)
             main_plane == MainPlane(objects_to_export, subcol)
         IN /\ active_layer_collection' =
                   IF outcome \in {"skipped_name", "skipped_empty"}
                   THEN active_layer_collection ELSE active
            /\ IF outcome = "exported" /\ ProceedsAfterRemove(raised)
               THEN /\ dirs' = dirs \cup {<<width_cm>>, export_dir}
                    /\ active_object' = main_plane
                    /\ files' = ExportSceneFbx(files1, export_path, Doc, active)
                    /\ exportLog' = Append(exportLog,
                           [subcol |-> subcol, outcome |-> outcome,
                            path |-> export_path, had_old |-> had_old,
                            remove_raised |-> raised,
                            present_at_export |-> export_path \in DOMAIN files1,
                            active_collection |-> active,
                            active_object |-> main_plane])
               ELSE /\ dirs' = IF outcome = "exported"
                               THEN dirs \cup {<<width_cm>>, export_dir}
                               ELSE dirs
                    /\ files' = IF outcome = "exported" THEN files1 ELSE files
                    /\ UNCHANGED active_object
                    /\ exportLog' = Append(exportLog,
                           [subcol |-> subcol,
                            outcome |-> IF outcome = "exported"
                                        THEN "remove_failed" ELSE outcome,
                            path |-> None, had_old |-> FALSE,
                            remove_raised |-> raised,
                            present_at_export |-> FALSE,
                            active_collection |-> active_layer_collection',
                            active_object |-> active_object])
    /\ pending' = Tail(pending)
    /\ pc' = IF Tail(pending) = <<>> /\ export_widths = <<>>
             THEN "finish" ELSE pc
    /\ UNCHANGED <<PLANE_SIZES_CM, data_collections, data_objects,
                   scene_collection, layer_missing, remove_collections,
                   height_collections_map, created, export_widths, width_col,
                   runs, aborted, unremovable, orig, prevDone, tessVars>>

\* lines 195, 267, 269: the script ends
Complete ==
    /\ pc = "finish"
    /\ pc' = "done"
    /\ UNCHANGED <<PLANE_SIZES_CM, data_collections, data_objects,
                   scene_collection, layer_missing, active_layer_collection,
                   active_object, files, dirs, remove_collections,
                   height_collections_map, pending, created, export_widths,
                   width_col, exportLog, runs, aborted, unremovable, orig,
                   prevDone, tessVars>>

(***************************************************************************)
(* Runs.  The host runs the script to its end, or to an uncaught failure   *)
(* that leaves the document as it is at that point; the script can then be *)
(* run again.                                                              *)
(***************************************************************************)
Running == {"cleanup", "cleanup_collections", "build", "create", "sort",
            "sort_widths", "export", "export_loop", "finish"}

\* an uncaught exception ends the run where it is
Abort ==
    /\ pc \in Running
    /\ aborted' = TRUE
    /\ pc' = "aborted"
    /\ UNCHANGED <<PLANE_SIZES_CM, data_collections, data_objects,
                   scene_collection, layer_missing, active_layer_collection,
                   active_object, files, dirs, remove_collections,
                   height_collections_map, pending, created, export_widths,
                   width_col, exportLog, runs, unremovable, orig, prevDone,
                   tessVars>>

\* the script is run (again): its globals start afresh
StartRun ==
    /\ pc \in {"idle", "done", "aborted"}
    /\ runs < MaxRuns
    /\ runs' = runs + 1
    /\ prevDone' = IF pc = "done" THEN <<Doc>> ELSE None
    /\ pc' = "cleanup"
    /\ remove_collections' = <<>>
    /\ height_collections_map' = <<>>
    /\ pending' = <<>>
    /\ created' = <<>>
    /\ export_widths' = <<>>
    /\ width_col' = None
    /\ exportLog' = <<>>
    /\ UNCHANGED <<PLANE_SIZES_CM, data_collections, data_objects,
                   scene_collection, layer_missing, active_layer_collection,
                   active_object, files, dirs, aborted, unremovable, orig,
                   tessVars>>

(***************************************************************************)
(* The documents a first run can start from, and the size lists.           *)
(***************************************************************************)
\* values of PLANE_SIZES_CM (line 34), in an order that is not ascending
SizePool == <<100, 20, 40, 60, 80, 120, 140, 160, 180, 200>>

\* the configured list: NumSizes of the values, as listed or ascending
Configs == {SubSeq(SizePool, 1, NumSizes),
            Sorted(SubSeq(SizePool, 1, NumSizes), LAMBDA a, b : a < b)}

Foo == <<"F", "o", "o">>
Cube == <<"C", "u", "b", "e">>
PriorWidth == Str(SizePool[2])
PriorPair == PairName(SizePool[2], SizePool[2])

PriorFeatures == {"width", "pair", "empty", "mesh"}

\* A document before the first run: a collection Foo under the scene root
\* and, as has says, a collection "20" linked before it, a collection "20x20"
\* inside Foo, an empty object named "20x20", a mesh object named "20x20"
\* (or "20x20.001"), and a mesh object Cube linked to the scene root.
PriorDoc(has) ==
    LET home == IF has["pair"] THEN PriorPair ELSE Foo
        inFoo == IF has["empty"] THEN <<PriorPair>> ELSE <<>>
        meshName == IF has["empty"] THEN PriorPair \o Suffix(1) ELSE PriorPair
        inHome == IF has["mesh"] THEN <<meshName>> ELSE <<>>
        colls ==
            (Foo :> [children |-> IF has["pair"] THEN <<PriorPair>> ELSE <<>>,
                     objects |-> IF has["pair"] THEN inFoo ELSE inFoo \o inHome])
            @@ (IF has["width"] THEN PriorWidth :> EmptyCollection ELSE <<>>)
            @@ (IF has["pair"]
                THEN PriorPair :> [children |-> <<>>, objects |-> inHome]
                ELSE <<>>)
        prior == [maker |-> "prior", width |-> <<0, 1>>, height |-> <<0, 1>>]
        objs ==
            (IF has["empty"]
             THEN PriorPair :> [type |-> "EMPTY", data |-> prior] ELSE <<>>)
            @@ (IF has["mesh"]
                THEN meshName :> [type |-> "MESH", data |-> prior] ELSE <<>>)
            @@ (Cube :> [type |-> "MESH", data |-> prior])
    IN [collections |-> colls,
        objects |-> objs,
        scene |-> [children |-> (IF has["width"] THEN <<PriorWidth>> ELSE <<>>)
                                \o <<Foo>>,
                   objects |-> <<Cube>>]]

PriorDocs == {PriorDoc(has) : has \in [PriorFeatures -> BOOLEAN]}

InitScript ==
    /\ PLANE_SIZES_CM \in Configs
    /\ \E d \in PriorDocs :
         /\ data_collections = d.collections
         /\ data_objects = d.objects
         /\ scene_collection = d.scene
         /\ orig = d
    /\ active_layer_collection = None
    /\ active_object = None
    /\ unremovable \in
           {{}, {ExportPath(Str(PLANE_SIZES_CM[1]),
                            PairName(PLANE_SIZES_CM[1], PLANE_SIZES_CM[NumSizes]))}}
    /\ pc = "idle"
    /\ remove_collections = <<>>
    /\ height_collections_map = <<>>
    /\ pending = <<>>
    /\ created = <<>>
    /\ export_widths = <<>>
    /\ width_col = None
    /\ exportLog = <<>>
    /\ runs = 0
    /\ aborted = FALSE
    /\ prevDone = None
    /\ tess_in = None
    /\ tess_out = None

\* the host keeps the view layer in step with the collection tree
Init ==
    /\ InitScript
    /\ layer_missing = {}
    /\ files = <<>>
    /\ dirs = {}

\* A view layer that holds no node for one of the collections of the run,
\* and an export directory that holds a file of an earlier session.
InitStale ==
    /\ InitScript
    /\ data_objects = (Cube :> orig.objects[Cube])
    /\ layer_missing \in
           {{}, {Str(PLANE_SIZES_CM[1])},
            {PairName(PLANE_SIZES_CM[1], PLANE_SIZES_CM[NumSizes])}}
    /\ files = (ExportPath(Str(PLANE_SIZES_CM[1]),
                           PairName(PLANE_SIZES_CM[1], PLANE_SIZES_CM[NumSizes]))
                :> [run |-> 0, collection |-> None, objects |-> {}])
    /\ dirs = {<<Str(PLANE_SIZES_CM[1])>>,
               <<Str(PLANE_SIZES_CM[1]), Str(PLANE_SIZES_CM[NumSizes])>>}

InitTess ==
    /\ \E w, h \in TessSizes : tess_in = <<Metres(w), Metres(h)>>
    /\ tess_out = None
    /\ PLANE_SIZES_CM = <<>>
    /\ data_collections = <<>>
    /\ data_objects = <<>>
    /\ scene_collection = EmptyCollection
    /\ layer_missing = {}
    /\ active_layer_collection = None
    /\ active_object = None
    /\ files = <<>>
    /\ dirs = {}
    /\ unremovable = {}
    /\ pc = "tessellator"
    /\ remove_collections = <<>>
    /\ height_collections_map = <<>>
    /\ pending = <<>>
    /\ created = <<>>
    /\ export_widths = <<>>
    /\ width_col = None
    /\ exportLog = <<>>
    /\ runs = 0
    /\ aborted = FALSE
    /\ orig = <<>>
    /\ prevDone = None

Next ==
    \/ StartRun
    \/ CleanupObjects
    \/ CleanupCollections
    \/ BuildWidth
    \/ CreateObjects
    \/ LinkObjects
    \/ SortRoot
    \/ SortWidth
    \/ ExportBegin
    \/ ExportWidth
    \/ ExportSubcol
    \/ Complete
    \/ Abort

Spec == Init /\ [][Next]_vars

SpecStale == InitStale /\ [][Next]_vars

SpecTess == InitTess /\ [][Tessellate]_vars

(***************************************************************************)
(* Properties.                                                             *)
(***************************************************************************)
Sizes == SeqToSet(PLANE_SIZES_CM)

Done == pc = "done"

LogSet == {exportLog[i] : i \in 1..Len(exportLog)}

\* the collections that hold the object o
Holders(o) ==
    {c \in DOMAIN data_collections : o \in SeqToSet(data_collections[c].objects)}

IsMesh(o) == o \in DOMAIN data_objects /\ data_objects[o].type = "MESH"

IsPrimary(o) ==
    IsMesh(o) /\ data_objects[o].data.maker = "create_subdivided_plane_bmesh"

IsProxy(o) == IsMesh(o) /\ data_objects[o].data.maker = "create_simple_plane"

\* C1: after a complete run, for every configured w and h there is one primary
\* mesh object named "{w}x{h}" and one proxy mesh object named "UCX_{w}x{h}",
\* both linked into the subgroup "{w}x{h}", a child of the group "{w}", a child
\* of the scene root; the subgroup holds no other mesh and no mesh is linked
\* into more than one subgroup.
C1_OnePrimaryOneProxyPerPair ==
    Done =>
        /\ \A w \in Sizes, h \in Sizes :
             LET n == PairName(w, h)
             IN /\ IsPrimary(n)
                /\ IsProxy(UCX_ \o n)
                /\ n \in DOMAIN data_collections
                /\ {o \in SeqToSet(data_collections[n].objects) : IsMesh(o)}
                       = {n, UCX_ \o n}
                /\ Str(w) \in DOMAIN data_collections
                /\ n \in SeqToSet(data_collections[Str(w)].children)
                /\ Str(w) \in SeqToSet(scene_collection.children)
        /\ \A o \in DOMAIN data_objects :
             IsMesh(o) => Cardinality(Holders(o)) <= 1

\* C2: the document after a second run in a row is the document the first
\* run left.
C2_SecondRunSameDocument ==
    (Done /\ prevDone # None) => Doc = prevDone[1]

C2_Witness ==
    /\ Done
    /\ runs >= 2
    /\ prevDone # None
    /\ \A w \in Sizes, h \in Sizes :
         PairName(w, h) \in DOMAIN prevDone[1].collections

\* the subgroups in the order the hierarchy lists them: the digit-named
\* children of the scene root, and under each its children
HierarchyOrder ==
    LET ws == SelectSeq(scene_collection.children, IsDigit)
    IN Flatten([i \in 1..Len(ws) |-> data_collections[ws[i]].children])

\* the sizes <<w, h>> a subgroup name is formatted from
PairOf(name) ==
    CHOOSE p \in Sizes \X Sizes : PairName(p[1], p[2]) = name

\* the size a group name is formatted from
WidthOf(name) == CHOOSE w \in Sizes : Str(w) = name

PairBefore(p, q) == p[1] < q[1] \/ (p[1] = q[1] /\ p[2] < q[2])

C4_UVInUnitSquareCornersMapped ==
    tess_out # None =>
        LET mesh == tess_out[1]
            vs == mesh.verts
            loops == UNION {SeqToSet(mesh.faces[f]) : f \in 1..Len(mesh.faces)}
            isMin(k) == \A j \in 1..Len(vs) :
                            RLe(vs[k][1], vs[j][1]) /\ RLe(vs[k][2], vs[j][2])
            isMax(k) == \A j \in 1..Len(vs) :
                            RLe(vs[j][1], vs[k][1]) /\ RLe(vs[j][2], vs[k][2])
        IN \A l \in loops :
             /\ RLe(RInt(0), l.uv[1]) /\ RLe(l.uv[1], RInt(1))
             /\ RLe(RInt(0), l.uv[2]) /\ RLe(l.uv[2], RInt(1))
             /\ isMin(l.vert) => l.uv = <<RInt(0), RInt(0)>>
             /\ isMax(l.vert) => l.uv = <<RInt(1), RInt(1)>>

\* C5: after the sorting stage the width groups under the scene root are in
\* strictly ascending numeric order, the subgroups of every width group are in
\* ascending order of (width, height), and the exporter visits the subgroups
\* in that order.
C5_NumericOrder ==
    pc \in {"export", "export_loop", "finish", "done"} =>
        LET ws == SelectSeq(scene_collection.children, IsDigit)
        IN /\ \A i, j \in 1..Len(ws) :
                i < j => WidthOf(ws[i]) < WidthOf(ws[j])
           /\ \A w \in SeqToSet(ws) :
                LET cs == data_collections[w].children
                IN \A i, j \in 1..Len(cs) :
                     i < j => PairBefore(PairOf(cs[i]), PairOf(cs[j]))
           /\ \A i \in 1..Len(exportLog) :
                exportLog[i].subcol = HierarchyOrder[i]
           /\ Done => Len(exportLog) = Len(HierarchyOrder)

C5_Witness ==
    /\ Done
    /\ PLANE_SIZES_CM = SubSeq(SizePool, 1, NumSizes)
    /\ SelectSeq(scene_collection.children, IsDigit) = <<Str(20), Str(100)>>
    /\ Len(exportLog) = NumSizes * NumSizes

\* C6: the primary mesh built for width w and height h has
\* (round(w/step)+1) x (round(h/step)+1) vertices, a whole number of steps k
\* giving k+1; a 20 cm by 20 cm plane with step 0.2 m has 2 x 2 vertices.
C6_VertexCount ==
    tess_out # None =>
        LET n == Len(tess_out[1].verts)
            qx == RDiv(tess_in[1], PLANE_SUBDIVISION_SIZE)
            qy == RDiv(tess_in[2], PLANE_SUBDIVISION_SIZE)
        IN /\ n = (Round(qx) + 1) * (Round(qy) + 1)
           /\ (qx[2] = 1 /\ qy[2] = 1) => n = (qx[1] + 1) * (qy[1] + 1)
           /\ tess_in = <<Metres(20), Metres(20)>> => n = 2 * 2
           /\ Cardinality(SeqToSet(tess_out[1].verts)) = n

C6_Witness ==
    /\ tess_in = <<Metres(20), Metres(20)>>
    /\ tess_out # None
    /\ Len(tess_out[1].verts) = 4

\* the entries of the log that record an invocation of the exporter for the
\* subgroup named n
Exports(n) ==
    {i \in 1..Len(exportLog) :
         exportLog[i].subcol = n /\ exportLog[i].outcome = "exported"}

\* C7: in a run with export enabled every leaf subgroup "{w}x{h}" is exported
\* exactly once, to D/{w}/{h}/SM_Developer_Plane_{w}x{h}.fbx, with that
\* subgroup the active collection (the file holds the pair's primary and proxy
\* mesh) and the primary mesh named "{w}x{h}" the active object.
C7_ExportedOnceWithPrimaryActive ==
    Done =>
        \A w \in Sizes, h \in Sizes :
            LET n == PairName(w, h)
                path == <<Str(w), Str(h), FbxFilename(n)>>
            IN /\ Cardinality(Exports(n)) = 1
               /\ \A i \in Exports(n) :
                    /\ exportLog[i].path = path
                    /\ exportLog[i].active_collection = n
                    /\ exportLog[i].active_object = n
                    /\ IsPrimary(exportLog[i].active_object)
                    /\ Holders(exportLog[i].active_object) = {n}
               /\ path \in DOMAIN files
               /\ files[path].collection = n
               /\ files[path].objects = SeqToSet(data_collections[n].objects)
               /\ \E o \in files[path].objects : IsPrimary(o)
               /\ \E o \in files[path].objects : IsProxy(o)

\* the names that are digit-only, contain "x" or start with "UCX_"
GeneratedLooking(name) ==
    \/ \A i \in 1..Len(name) : name[i] \in DigitChars
    \/ \E i \in 1..Len(name) : name[i] = "x"
    \/ (Len(name) >= 4 /\ SubSeq(name, 1, 4) = <<"U", "C", "X", "_">>)

\* The document a complete run started from the original document ends in:
\* what of the original neither is a mesh object nor looks generated, the
\* width groups in ascending order after the scene root's other children,
\* under each its subgroups in ascending order of height, in each the
\* primary and the proxy mesh of the pair.
CompleteRunResult ==
    LET keptC == {c \in DOMAIN orig.collections : ~GeneratedLooking(c)}
        keptO == {o \in DOMAIN orig.objects : orig.objects[o].type # "MESH"}
        asc == Sorted(PLANE_SIZES_CM, LAMBDA a, b : a < b)
        primary(w, h) == UniqueName(PairName(w, h), keptO)
        proxy(w, h) == UniqueName(UCX_ \o PairName(w, h), keptO)
        keep(cs, S) == SelectSeq(cs, LAMBDA c : c \in S)
        mesh(maker, w, h) ==
            [type |-> "MESH",
             data |-> [maker |-> maker, width |-> Rat(w, 100),
                       height |-> Rat(h, 100)]]
        newC == {Str(w) : w \in Sizes}
                \cup {PairName(w, h) : w \in Sizes, h \in Sizes}
        newO == {primary(w, h) : w \in Sizes, h \in Sizes}
                \cup {proxy(w, h) : w \in Sizes, h \in Sizes}
    IN [collections |->
            [c \in keptC \cup newC |->
                IF c \in keptC
                THEN [children |-> keep(orig.collections[c].children, keptC),
                      objects |-> keep(orig.collections[c].objects, keptO)]
                ELSE IF c \in {Str(w) : w \in Sizes}
                THEN [children |-> [i \in 1..Len(asc) |->
                                       PairName(WidthOf(c), asc[i])],
                      objects |-> <<>>]
                ELSE [children |-> <<>>,
                      objects |-> <<primary(PairOf(c)[1], PairOf(c)[2]),
                                    proxy(PairOf(c)[1], PairOf(c)[2])>>]],
        objects |->
            [o \in keptO \cup newO |->
                IF o \in keptO THEN orig.objects[o]
                ELSE LET p == CHOOSE q \in Sizes \X Sizes :
                                  o \in {primary(q[1], q[2]), proxy(q[1], q[2])}
                     IN IF o = primary(p[1], p[2])
                        THEN mesh("create_subdivided_plane_bmesh", p[1], p[2])
                        ELSE mesh("create_simple_plane", p[1], p[2])],
        scene |->
            [children |-> keep(orig.scene.children, keptC)
                          \o [i \in 1..Len(asc) |-> Str(asc[i])],
             objects |-> keep(orig.scene.objects, keptO)]]

\* C8: a complete run ends in the document a complete run started from the
\* original document ends in, also when the runs before it were ended by an
\* uncaught failure at any point.
C8_AbortedRunLeavesNoTrace ==
    Done => Doc = CompleteRunResult

C8_Witness ==
    /\ Done
    /\ aborted
    /\ runs >= 2
    /\ prevDone = None
    /\ Doc = CompleteRunResult

\* the layer collection of the subgroup of <<w, h>> is in the view layer
Resolves(w, h) ==
    Str(w) \notin layer_missing /\ PairName(w, h) \notin layer_missing

\* the step in which the export loop skips a subgroup for want of its node
SkipsUnresolved ==
    /\ pc = "export_loop"
    /\ Len(exportLog') = Len(exportLog) + 1
    /\ exportLog'[Len(exportLog')].outcome = "skipped_layer"

\* C9: a subgroup whose layer collection is not found is skipped with the
\* filesystem (directories, files) and the active collection left as they
\* are, and every subgroup whose layer collection is found is still exported.
C9_UnresolvedSkippedOthersExported ==
    /\ [][SkipsUnresolved =>
              /\ files' = files
              /\ dirs' = dirs
              /\ active_layer_collection' = active_layer_collection
              /\ active_object' = active_object]_vars
    /\ [](Done =>
            \A w \in Sizes, h \in Sizes :
                LET n == PairName(w, h)
                    path == <<Str(w), Str(h), FbxFilename(n)>>
                IN IF Resolves(w, h)
                   THEN /\ Cardinality(Exports(n)) = 1
                        /\ path \in DOMAIN files
                        /\ files[path].run = runs
                   ELSE /\ Exports(n) = {}
                        /\ \E e \in LogSet :
                             e.subcol = n /\ e.outcome = "skipped_layer"
                        /\ path \in DOMAIN files => files[path].run = 0
                        /\ <<Str(w), Str(h)>> \in dirs =>
                               path \in DOMAIN files)

C9_Witness ==
    /\ Done
    /\ \E e \in LogSet : e.outcome = "skipped_layer"
    /\ \E e \in LogSet : e.outcome = "exported"
    /\ \E q \in DOMAIN files : files[q].run = 0
    /\ \E w \in Sizes, h \in Sizes :
         ~Resolves(w, h) /\ <<Str(w), Str(h)>> \notin dirs

\* C10: when os.remove raises on the old file of a subgroup the exporter is
\* still invoked for that path with that subgroup active, and the subgroups
\* after it are still processed.
C10_RemoveFailureDoesNotHalt ==
    /\ \A e \in LogSet :
         (e.remove_raised \/ e.outcome = "remove_failed") =>
             /\ e.outcome = "exported"
             /\ e.active_collection = e.subcol
             /\ e.path \in DOMAIN files
             /\ files[e.path].run = runs
             /\ files[e.path].collection = e.subcol
    /\ Done => \A w \in Sizes, h \in Sizes :
                   Cardinality(Exports(PairName(w, h))) = 1

C10_Witness ==
    /\ Done
    /\ \E i \in 1..Len(exportLog) :
         /\ exportLog[i].remove_raised
         /\ i < Len(exportLog)
         /\ exportLog[i + 1].outcome = "exported"

=============================================================================
